---- MODULE Spec2Model ----
(***************************************************************************)
(* Model of the geolocation verification core                              *)
(* (backEnd/src/services/geolocationService.js) and of the memory_vault    *)
(* Move module.                                                            *)
(*                                                                         *)
(* JavaScript values are records [k, n, s]: k is the kind of value, n its  *)
(* numeric payload, s its string payload.  Coordinates are whole degrees,  *)
(* radii whole metres.  A Haversine distance is a real number of metres;   *)
(* it is carried in whole centimetres (the floor of 100 times the double   *)
(* the code computes), so that Math.round has something to round.          *)
(***************************************************************************)
EXTENDS Integers, Sequences, FiniteSets, TLC

VARIABLES pc, args, result,
          heap, callLog,
          store_exists, memories, total_count, user_memories

vars == <<pc, args, result, heap, callLog,
          store_exists, memories, total_count, user_memories>>

callVars == <<pc, args, result>>
serviceVars == <<heap, callLog>>
vaultVars == <<store_exists, memories, total_count, user_memories>>

----------------------------------------------------------------------------
(* JavaScript values                                                       *)

Undefined == [k |-> "undefined", n |-> 0, s |-> ""]
Null == [k |-> "null", n |-> 0, s |-> ""]
Bool(b) == [k |-> "boolean", n |-> IF b THEN 1 ELSE 0, s |-> ""]
Num(i) == [k |-> "number", n |-> i, s |-> ""]
NaN == [k |-> "nan", n |-> 0, s |-> ""]
PosInfinity == [k |-> "inf", n |-> 1, s |-> ""]
NegInfinity == [k |-> "inf", n |-> -1, s |-> ""]
Str(x) == [k |-> "string", n |-> 0, s |-> x]
Sym == [k |-> "symbol", n |-> 0, s |-> "radius"]
Obj == [k |-> "object", n |-> 0, s |-> ""]

\* typeof v
Typeof(v) ==
  CASE v.k \in {"number", "nan", "inf"} -> "number"
    [] v.k \in {"null", "object"} -> "object"
    [] OTHER -> v.k

\* ToBoolean(v): the falsy values are undefined, null, false, 0, NaN and "".
Truthy(v) ==
  CASE v.k \in {"undefined", "null", "nan"} -> FALSE
    [] v.k = "boolean" -> v.n = 1
    [] v.k = "number" -> v.n # 0
    [] v.k = "string" -> v.s # ""
    [] OTHER -> TRUE

\* a || b
Or(a, b) == IF Truthy(a) THEN a ELSE b

\* StringToNumber on the string literals of the model: a decimal literal
\* converts to its value, the empty string to 0, anything else to NaN.
StringToNumber(x) ==
  CASE x = "" -> Num(0)
    [] x = "0" -> Num(0)
    [] x = "1" -> Num(1)
    [] x = "5" -> Num(5)
    [] OTHER -> NaN

\* Number(v) raises a TypeError for a Symbol.
ToNumberThrows(v) == v.k = "symbol"

TypeErrorMessage == "Cannot convert a Symbol value to a number"

\* Number(v), for a v on which it does not raise.
ToNumber(v) ==
  CASE v.k = "undefined" -> NaN
    [] v.k = "null" -> Num(0)
    [] v.k = "boolean" -> Num(v.n)
    [] v.k = "string" -> StringToNumber(v.s)
    [] v.k = "object" -> NaN
    [] OTHER -> v

\* a <= b on numbers: false when either is NaN.
Lte(a, b) ==
  CASE a.k = "nan" \/ b.k = "nan" -> FALSE
    [] a.k = "inf" /\ b.k = "inf" -> a.n <= b.n
    [] a.k = "inf" -> a.n < 0
    [] b.k = "inf" -> b.n > 0
    [] OTHER -> a.n <= b.n

\* a >= b on numbers.
Gte(a, b) == Lte(b, a)

\* Math.max(a, b) on numbers: NaN when either is NaN.
MathMax(a, b) ==
  IF a.k = "nan" \/ b.k = "nan" THEN NaN
  ELSE IF Lte(a, b) THEN b ELSE a

\* Math.round of a non-negative distance carried in centimetres, in metres:
\* the nearest integer, halves going up.
MathRoundFloor(cm) == cm \div 100

MathRound(cm) == (cm + 50) \div 100

----------------------------------------------------------------------------
(* Geodesy primitives                                                      *)

Abs(i) == IF i < 0 THEN -i ELSE i

Min(i, j) == IF i <= j THEN i ELSE j

Max(i, j) == IF i <= j THEN j ELSE i

\* R * c of calculateDistance in IEEE double arithmetic, floored to
\* centimetres, for latitudes in {0, 1, 90} and longitudes in {0, 1, 180}.
\* a depends on lat1, lat2 and lon2 - lon1 alone, and neither on the sign of
\* lon2 - lon1 (it is squared) nor on the order of the latitudes (their
\* difference is squared, their cosines are multiplied): a row is
\* <<lower latitude, higher latitude, |lon2 - lon1|, centimetres>>.
HaversineRows ==
  { <<0, 0, 0, 0>>,           <<0, 0, 1, 11119492>>,
    <<0, 0, 179, 1990389186>>, <<0, 0, 180, 2001508679>>,
    <<0, 1, 0, 11119492>>,    <<0, 1, 1, 15724938>>,
    <<0, 1, 179, 1985783741>>, <<0, 1, 180, 1990389186>>,
    <<1, 1, 0, 0>>,           <<1, 1, 1, 11117799>>,
    <<1, 1, 179, 1976644990>>, <<1, 1, 180, 1979269694>>,
    <<0, 90, 0, 1000754339>>, <<0, 90, 1, 1000754339>>,
    <<0, 90, 179, 1000754339>>, <<0, 90, 180, 1000754339>>,
    <<1, 90, 0, 989634847>>,  <<1, 90, 1, 989634847>>,
    <<1, 90, 179, 989634847>>, <<1, 90, 180, 989634847>>,
    <<90, 90, 0, 0>>,         <<90, 90, 1, 0>>,
    <<90, 90, 179, 0>>,       <<90, 90, 180, 0>> }

\* calculateDistance(lat1, lon1, lat2, lon2), in centimetres.
CalculateDistance(lat1, lon1, lat2, lon2) ==
  LET dLon == lon2 - lon1
      row == CHOOSE r \in HaversineRows :
               /\ r[1] = Min(lat1, lat2)
               /\ r[2] = Max(lat1, lat2)
               /\ r[3] = Abs(dLon)
  IN row[4]

\* isValidCoordinates(lat, lon) on JavaScript values.
IsValidCoordinatesOpenNorth(lat, lon) ==
  /\ Typeof(lat) = "number"
  /\ Typeof(lon) = "number"
  /\ Gte(lat, Num(-90)) /\ Lte(lat, Num(89))
  /\ Gte(lon, Num(-180)) /\ Lte(lon, Num(180))

IsValidCoordinates(lat, lon) ==
  /\ Typeof(lat) = "number"
  /\ Typeof(lon) = "number"
  /\ Gte(lat, Num(-90)) /\ Lte(lat, Num(90))
  /\ Gte(lon, Num(-180)) /\ Lte(lon, Num(180))

----------------------------------------------------------------------------
(* verifyLocation                                                          *)

\* A submitted location: undefined, null, or an object with two properties
\* (Undefined for a property the object does not have).
SubmittedObj(lat, lon) == [k |-> "object", latitude |-> lat, longitude |-> lon]
SubmittedNone(kind) == [k |-> kind, latitude |-> Undefined, longitude |-> Undefined]

\* The value of a target's coordinates property: an array of values, or a
\* value that is no array.
CoordsArray(elems) == [isArray |-> TRUE, elems |-> elems, prim |-> Undefined]
CoordsPrim(v) == [isArray |-> FALSE, elems |-> <<>>, prim |-> v]

TargetObj(coords, radius) ==
  [k |-> "object", coordinates |-> coords, radiusMeters |-> radius]
TargetNone(kind) ==
  [k |-> kind, coordinates |-> CoordsPrim(Undefined), radiusMeters |-> Undefined]

\* o?.latitude, o?.longitude, o?.radiusMeters, o?.coordinates
Latitude(o) == IF o.k = "object" THEN o.latitude ELSE Undefined
Longitude(o) == IF o.k = "object" THEN o.longitude ELSE Undefined
RadiusMeters(o) == IF o.k = "object" THEN o.radiusMeters ELSE Undefined
Coordinates(o) == IF o.k = "object" THEN o.coordinates ELSE CoordsPrim(Undefined)

\* A message: the text, with the values a template literal embeds.
Message(text) == [text |-> text, distance |-> Undefined, allowed |-> Undefined]
VerifiedMessage(d) ==
  [text |-> "Location verified (${distanceMeters}m away)",
   distance |-> d, allowed |-> Undefined]
MismatchMessage(d, r) ==
  [text |-> "Location mismatch (${distanceMeters}m away, allowed ${allowedRadius}m)",
   distance |-> d, allowed |-> r]

VerificationResult(passed, within, distance, allowed, message) ==
  [passed |-> passed, withinRadius |-> within, distanceMeters |-> distance,
   allowedRadius |-> allowed, message |-> message]

\* The failure shape of the presence check and of the catch block:
\* allowedRadius is targetLocation?.radiusMeters || null.
RawRadiusFailure(target, message) ==
  VerificationResult(FALSE, FALSE, Null, Or(RadiusMeters(target), Null), message)

\* What a block of code ends with: a returned value, or a raised fault.
Returned(v) == [threw |-> FALSE, error |-> "", value |-> v]
Raised(e) ==
  [threw |-> TRUE, error |-> e,
   value |-> VerificationResult(FALSE, FALSE, Null, Null, Message(""))]

\* Math.max(10, Number(r)) of line 148, r = targetLocation?.radiusMeters || 50.
AllowedRadiusNoFloor(r) == ToNumber(r)

AllowedRadius(r) == MathMax(Num(10), ToNumber(r))

\* distanceMeters <= allowedRadius of line 175.
WithinRadius(distance, allowed) == Lte(distance, allowed)

\* Lines 174-185: the distance verdict.
DistanceVerdict(userLat, userLon, targetLat, targetLon, allowedRadius) ==
  LET distanceMeters ==
        Num(MathRound(CalculateDistance(userLat.n, userLon.n, targetLat.n, targetLon.n)))
      withinRadius == WithinRadius(distanceMeters, allowedRadius)
  IN VerificationResult(withinRadius, withinRadius, distanceMeters, allowedRadius,
       IF withinRadius THEN VerifiedMessage(distanceMeters)
       ELSE MismatchMessage(distanceMeters, allowedRadius))

\* Lines 134-185: the body of the try block.
VerifyFlow(submittedLocation, targetLocation) ==
  LET userLat == Latitude(submittedLocation)
      userLon == Longitude(submittedLocation)
      coords == Coordinates(targetLocation)
      radius == Or(RadiusMeters(targetLocation), Num(50))
  IN
  IF Typeof(userLat) # "number" \/ Typeof(userLon) # "number"
  THEN Returned(RawRadiusFailure(targetLocation, Message("Location data not provided")))
  ELSE IF ToNumberThrows(radius) THEN Raised(TypeErrorMessage)
  ELSE
    LET allowedRadius == AllowedRadius(radius) IN
    IF ~coords.isArray \/ Len(coords.elems) # 2
    THEN Returned(VerificationResult(FALSE, FALSE, Null, allowedRadius,
                    Message("Quest target location not configured")))
    ELSE IF ToNumberThrows(coords.elems[1]) \/ ToNumberThrows(coords.elems[2])
    THEN Raised(TypeErrorMessage)
    ELSE
      LET targetLon == ToNumber(coords.elems[1])
          targetLat == ToNumber(coords.elems[2])
      IN
      IF ~IsValidCoordinates(userLat, userLon) \/ ~IsValidCoordinates(targetLat, targetLon)
      THEN Returned(VerificationResult(FALSE, FALSE, Null, allowedRadius,
                      Message("Invalid coordinates")))
      ELSE Returned(DistanceVerdict(userLat, userLon, targetLat, targetLon, allowedRadius))

\* Lines 186-194: the catch block; e?.message || 'Location verification failed'.
CatchFault(targetLocation, error) ==
  RawRadiusFailure(targetLocation,
    Message(IF error # "" THEN error ELSE "Location verification failed"))

\* verifyLocation(submittedLocation, targetLocation): what the call ends with.
VerifyLocationNoCatch(submittedLocation, targetLocation) ==
  VerifyFlow(submittedLocation, targetLocation)

VerifyLocation(submittedLocation, targetLocation) ==
  LET flow == VerifyFlow(submittedLocation, targetLocation) IN
  IF flow.threw THEN Returned(CatchFault(targetLocation, flow.error)) ELSE flow

----------------------------------------------------------------------------
(* Inputs of verifyLocation                                                *)

NoResult == Returned(VerificationResult(FALSE, FALSE, Null, Null, Message("pending")))

LatitudeValues ==
  { Undefined, Null, Str("0"), Sym, NaN, PosInfinity,
    Num(0), Num(1), Num(90), Num(91), Num(-91) }

LongitudeValues ==
  { Undefined, Str("abc"), NaN, Num(0), Num(1), Num(180), Num(181), Num(-181) }

SubmittedLocations ==
  { SubmittedNone("undefined"), SubmittedNone("null") }
    \cup { SubmittedObj(lat, lon) : lat \in LatitudeValues, lon \in LongitudeValues }

\* coordinates is [lng, lat]
TargetLonValues ==
  { Num(0), Num(1), Num(180), Num(181), Str("1"), Str("abc"), Null, Sym }

TargetLatValues ==
  { Num(0), Num(1), Num(90), Num(91), Num(-91), Str("1"), Undefined, Sym }

CoordinatesValues ==
  { CoordsPrim(Undefined), CoordsPrim(Null), CoordsPrim(Str("0,0")), CoordsPrim(Obj),
    CoordsArray(<<>>), CoordsArray(<<Num(0)>>), CoordsArray(<<Num(0), Num(0), Num(0)>>) }
    \cup { CoordsArray(<<lon, lat>>) : lon \in TargetLonValues, lat \in TargetLatValues }

RadiusValues ==
  { Undefined, Null, NaN, PosInfinity, NegInfinity, Bool(TRUE), Obj, Sym,
    Str(""), Str("5"), Str("abc"),
    Num(0), Num(-5), Num(5), Num(10), Num(50), Num(111194), Num(111195) }

TargetLocations ==
  { TargetNone("undefined"), TargetNone("null") }
    \cup { TargetObj(c, r) : c \in CoordinatesValues, r \in RadiusValues }

IdleService ==
  /\ heap = <<>>
  /\ callLog = <<>>

IdleVault ==
  /\ store_exists = {}
  /\ memories = <<>>
  /\ total_count = 0
  /\ user_memories = <<>>

\* A caller is about to call verifyLocation with some pair of arguments.
InitVerify ==
  /\ pc = "call"
  /\ args \in [submitted : SubmittedLocations, target : TargetLocations]
  /\ result = NoResult
  /\ IdleService
  /\ IdleVault

\* The call of verifyLocation, from entry to return.
VerifyLocationCall ==
  /\ pc = "call"
  /\ result' = VerifyLocation(args.submitted, args.target)
  /\ pc' = "done"
  /\ UNCHANGED <<args, serviceVars, vaultVars>>

NextVerify == VerifyLocationCall

SpecVerify == InitVerify /\ [][NextVerify]_vars

----------------------------------------------------------------------------
(* Properties of verifyLocation                                            *)

Returns == pc = "done" /\ ~result.threw

\* The submitted latitude and longitude are both numeric.
PresenceOk == Typeof(Latitude(args.submitted)) = "number"
                /\ Typeof(Longitude(args.submitted)) = "number"

\* target.coordinates is an array of length 2.
OrderedPair == Coordinates(args.target).isArray
                 /\ Len(Coordinates(args.target).elems) = 2

\* Converting target.radiusMeters to a number raises a fault.
RadiusFault == RadiusMeters(args.target).k = "symbol"

\* Converting an element of the target's ordered pair raises a fault.
CoordinateFault ==
  OrderedPair /\ \E i \in 1..2 : Coordinates(args.target).elems[i].k = "symbol"

\* A fault is raised inside the flow.
FaultRaised == PresenceOk /\ (RadiusFault \/ CoordinateFault)

\* v is a finite number within [lo, hi].
InRange(v, lo, hi) == v.k = "number" /\ lo <= v.n /\ v.n <= hi

SubmittedInRange ==
  /\ InRange(Latitude(args.submitted), -90, 90)
  /\ InRange(Longitude(args.submitted), -180, 180)

TargetInRange ==
  /\ OrderedPair
  /\ InRange(ToNumber(Coordinates(args.target).elems[2]), -90, 90)
  /\ InRange(ToNumber(Coordinates(args.target).elems[1]), -180, 180)

IsDistanceVerdict ==
  result.value.message.text \in
    { VerifiedMessage(Null).text, MismatchMessage(Null, Null).text }

FailureShape ==
  /\ result.value.passed = FALSE
  /\ result.value.withinRadius = FALSE
  /\ result.value.distanceMeters = Null

MessageIs(text) == result.value.message = Message(text)

\* C1: verifyLocation returns a result and never raises, whatever the two
\* arguments are; a result that is no distance verdict has passed = false,
\* withinRadius = false and distanceMeters = null; a fault raised inside the
\* flow is returned as that failure shape, its description as the message.
C1_NeverRaises ==
  pc = "done" =>
    /\ ~result.threw
    /\ (~IsDistanceVerdict => FailureShape)
    /\ (FaultRaised => FailureShape /\ MessageIs(TypeErrorMessage))

\* A fault was raised by a coordinate and came back as a failure result.
C1_Witness ==
  /\ Returns
  /\ CoordinateFault /\ ~RadiusFault /\ PresenceOk
  /\ FailureShape /\ MessageIs(TypeErrorMessage)

\* C2 as stated: presence, target configuration, range validity, distance
\* evaluation, in this order, the first failing check deciding the message.
C2_OrderAsStated ==
  pc = "done" =>
    /\ ~result.threw
    /\ (~PresenceOk => MessageIs("Location data not provided"))
    /\ (PresenceOk /\ ~OrderedPair
          => MessageIs("Quest target location not configured"))
    /\ (PresenceOk /\ OrderedPair /\ ~(SubmittedInRange /\ TargetInRange)
          => MessageIs("Invalid coordinates"))
    /\ (result.value.distanceMeters # Null
          <=> PresenceOk /\ OrderedPair /\ SubmittedInRange /\ TargetInRange)

\* C2, amended: the order is presence, conversion of the radius, target
\* configuration, conversion of the two target coordinates, range validity,
\* distance evaluation; a conversion that raises a fault decides the message
\* at its place in this order.
C2_CheckOrder ==
  pc = "done" =>
    /\ ~result.threw
    /\ (~PresenceOk => MessageIs("Location data not provided"))
    /\ (PresenceOk /\ RadiusFault => MessageIs(TypeErrorMessage))
    /\ (PresenceOk /\ ~RadiusFault /\ ~OrderedPair
          => MessageIs("Quest target location not configured"))
    /\ (PresenceOk /\ ~RadiusFault /\ CoordinateFault
          => MessageIs(TypeErrorMessage))
    /\ (PresenceOk /\ ~RadiusFault /\ OrderedPair /\ ~CoordinateFault
          /\ ~(SubmittedInRange /\ TargetInRange)
          => MessageIs("Invalid coordinates"))
    /\ (result.value.distanceMeters # Null
          <=> PresenceOk /\ ~RadiusFault /\ OrderedPair /\ ~CoordinateFault
                /\ SubmittedInRange /\ TargetInRange)

\* The target is not configured and the submitted coordinate is out of
\* range: the earlier check decides.
C2_Witness ==
  /\ Returns
  /\ PresenceOk /\ ~OrderedPair /\ ~SubmittedInRange
  /\ Latitude(args.submitted) = Num(91)
  /\ MessageIs("Quest target location not configured")

\* target.radiusMeters is a number below 10.
RadiusBelowFloor ==
  RadiusMeters(args.target).k = "number" /\ RadiusMeters(args.target).n < 10

\* C3 as stated: every result, failures included, carries the floor of 10.
C3_FloorInEveryResult ==
  pc = "done" /\ RadiusBelowFloor => result.value.allowedRadius = Num(10)

\* C3, amended: once the presence check has passed and no fault is raised,
\* every result, failures included, carries the floor: a non-zero radius
\* below 10 gives allowedRadius 10 (0 counts as absent and gives 50).  The
\* result of a failed presence check and of the fault path carries
\* target.radiusMeters as it is, or null when it is falsy.
C3_FloorPastPresence ==
  pc = "done" =>
    /\ (PresenceOk /\ ~FaultRaised /\ RadiusBelowFloor
          => result.value.allowedRadius =
               IF RadiusMeters(args.target).n = 0 THEN Num(50) ELSE Num(10))
    /\ (~PresenceOk \/ FaultRaised
          => result.value.allowedRadius =
               IF Truthy(RadiusMeters(args.target))
               THEN RadiusMeters(args.target) ELSE Null)

\* A failure result that carries the floor.
C3_Witness ==
  /\ Returns
  /\ PresenceOk /\ RadiusMeters(args.target) = Num(5)
  /\ MessageIs("Invalid coordinates")
  /\ result.value.allowedRadius = Num(10)

\* target.radiusMeters is absent or invalid: undefined, null, 0, NaN, or a
\* value that does not convert to a number.
RadiusAbsentOrInvalid ==
  LET r == RadiusMeters(args.target) IN
    \/ r.k \in {"undefined", "null", "nan", "object", "symbol"}
    \/ r = Num(0)
    \/ r.k = "string" /\ StringToNumber(r.s) = NaN

\* C4: when the presence check passes, allowedRadius is a number that is at
\* least 10; it is 50 when target.radiusMeters is absent or invalid, and
\* max(10, r) for a numeric r.
C4_UsableRadius ==
  pc = "done" /\ PresenceOk =>
    LET r == RadiusMeters(args.target)
        a == result.value.allowedRadius
    IN /\ Typeof(a) = "number" /\ Gte(a, Num(10))
       /\ (RadiusAbsentOrInvalid => a = Num(50))
       /\ (r.k = "number" /\ r.n # 0 => a = Num(Max(10, r.n)))

\* The distance the code's Haversine primitive gives for the valid pair.
HaversineOfArgs ==
  CalculateDistance(Latitude(args.submitted).n, Longitude(args.submitted).n,
                    ToNumber(Coordinates(args.target).elems[2]).n,
                    ToNumber(Coordinates(args.target).elems[1]).n)

\* d, whole metres, is the distance cm, centimetres, rounded to the nearest.
NearestMeter(d, cm) == d.k = "number" /\ d.n * 100 - 50 <= cm /\ cm < d.n * 100 + 50

SamePosition ==
  /\ ToNumber(Coordinates(args.target).elems[2]) = Latitude(args.submitted)
  /\ ToNumber(Coordinates(args.target).elems[1]) = Longitude(args.submitted)

\* The verdict of the distance evaluation, for valid coordinates.
VerdictOfValidPair ==
  /\ NearestMeter(result.value.distanceMeters, HaversineOfArgs)
  /\ result.value.withinRadius
       = Lte(result.value.distanceMeters, result.value.allowedRadius)
  /\ result.value.passed = result.value.withinRadius

\* In every result passed = withinRadius, and a passed result has a distance
\* within the allowed radius.
PassedMeansWithin ==
  /\ result.value.passed = result.value.withinRadius
  /\ (result.value.passed =>
        /\ result.value.distanceMeters # Null
        /\ Lte(result.value.distanceMeters, result.value.allowedRadius))

----------------------------------------------------------------------------
(* detectSpoofing                                                          *)
(* A risk score is carried in tenths: 0.6 is 6, 1 is 10, 0.5 is 5.         *)

RiskWeight == 6
RiskCap == 10
PassThreshold == 5

\* A device signal: undefined, null, or an object with two properties.
DeviceInfoObj(emulator, mock) ==
  [k |-> "object", isEmulator |-> emulator, isMockLocation |-> mock]
DeviceInfoNone(kind) ==
  [k |-> kind, isEmulator |-> Undefined, isMockLocation |-> Undefined]

\* !deviceInfo
NoDeviceInfo(deviceInfo) == deviceInfo.k \in {"undefined", "null"}

Check(name, passed, details) ==
  [check |-> name, passed |-> passed, details |-> details]

\* Lines 210-215: the entry pushed for the emulator flag.
EmulatorCheck(deviceInfo) ==
  IF Truthy(deviceInfo.isEmulator)
  THEN Check("isEmulator", FALSE, "Device reports emulator")
  ELSE Check("isEmulator", TRUE, "Not an emulator")

\* Lines 217-222: the entry pushed for the mock-location flag.
MockLocationCheck(deviceInfo) ==
  IF Truthy(deviceInfo.isMockLocation)
  THEN Check("mockLocation", FALSE, "Mock location enabled")
  ELSE Check("mockLocation", TRUE, "Mock location not detected")

\* riskScore before the cap: += 0.6 for each flag that is set.
RiskSum(deviceInfo) ==
  (IF Truthy(deviceInfo.isEmulator) THEN RiskWeight ELSE 0)
    + (IF Truthy(deviceInfo.isMockLocation) THEN RiskWeight ELSE 0)

\* Line 224: riskScore = Math.min(1, riskScore)
RiskScoreUncapped(sum) == sum

RiskScore(sum) == Min(RiskCap, sum)

\* Line 225: passed: riskScore <= 0.5
SpoofPassedBelowCap(riskScore) == riskScore < RiskCap

SpoofPassed(riskScore) == riskScore <= PassThreshold

SpoofAssessment(passed, checks, riskScore) ==
  [passed |-> passed, checks |-> checks, riskScore |-> riskScore]

\* The objects and arrays the service creates live in a heap, a sequence of
\* cells; a reference is an index into it.  An array cell holds its elements;
\* an object cell holds the values of its properties, and checks, the
\* reference its checks property holds (0 when it has none).  name is the
\* variable an array was created for.
ArrayCell(name, elems) ==
  [array |-> TRUE, name |-> name, elems |-> elems, value |-> <<>>, checks |-> 0]
ObjectCell(value, checks) ==
  [array |-> FALSE, name |-> "", elems |-> <<>>, value |-> value, checks |-> checks]

\* A new cell: the heap with it, and the reference to it.
Alloc(h, cell) == [heap |-> Append(h, cell), ref |-> Len(h) + 1]

\* array.push(item)
Push(h, ref, item) == [h EXCEPT ![ref].elems = Append(@, item)]

\* What a caller holding ref sees: the cell, with the elements of its checks.
Observe(h, ref) ==
  [array |-> h[ref].array, elems |-> h[ref].elems, value |-> h[ref].value,
   checks |-> IF h[ref].checks = 0 THEN <<>> ELSE h[h[ref].checks].elems]

\* Line 202: const checks = [], a new array in each call.
AllocChecksOnce(h) ==
  IF \E r \in 1..Len(h) : h[r].name = "checks"
  THEN [heap |-> h, ref |-> CHOOSE r \in 1..Len(h) : h[r].name = "checks"]
  ELSE Alloc(h, ArrayCell("checks", <<>>))

AllocChecks(h) == Alloc(h, ArrayCell("checks", <<>>))

\* detectSpoofing(deviceInfo) on heap h: the heap after the call and the
\* reference it returns.
DetectSpoofingOn(h, deviceInfo) ==
  LET checks == AllocChecks(h) IN
  IF NoDeviceInfo(deviceInfo)
  THEN Alloc(checks.heap, ObjectCell([passed |-> TRUE, riskScore |-> 0], checks.ref))
  ELSE
    LET h1 == Push(checks.heap, checks.ref, EmulatorCheck(deviceInfo))
        h2 == Push(h1, checks.ref, MockLocationCheck(deviceInfo))
        riskScore == RiskScore(RiskSum(deviceInfo))
    IN Alloc(h2, ObjectCell([passed |-> SpoofPassed(riskScore),
                             riskScore |-> riskScore], checks.ref))

\* detectSpoofing(deviceInfo): the assessment a first call returns.
DetectSpoofing(deviceInfo) ==
  LET call == DetectSpoofingOn(<<>>, deviceInfo)
      seen == Observe(call.heap, call.ref)
  IN SpoofAssessment(seen.value.passed, seen.checks, seen.value.riskScore)

FlagValues ==
  { Undefined, Null, Bool(TRUE), Bool(FALSE), Num(0), Num(1), NaN,
    Str(""), Str("yes"), Obj }

DeviceInfos ==
  { DeviceInfoNone("undefined"), DeviceInfoNone("null") }
    \cup { DeviceInfoObj(e, m) : e \in FlagValues, m \in FlagValues }

NoAssessment == SpoofAssessment(FALSE, <<>>, -1)

\* A caller is about to call detectSpoofing with some signal, or with none.
InitSpoof ==
  /\ pc = "call"
  /\ args \in [deviceInfo : DeviceInfos]
  /\ result = NoAssessment
  /\ IdleService
  /\ IdleVault

\* The call of detectSpoofing, from entry to return.
DetectSpoofingCall ==
  /\ pc = "call"
  /\ result' = DetectSpoofing(args.deviceInfo)
  /\ pc' = "done"
  /\ UNCHANGED <<args, serviceVars, vaultVars>>

NextSpoof == DetectSpoofingCall

SpecSpoof == InitSpoof /\ [][NextSpoof]_vars

\* The number of flags of the signal that are set.
FlagsSet ==
  (IF Truthy(args.deviceInfo.isEmulator) THEN 1 ELSE 0)
    + (IF Truthy(args.deviceInfo.isMockLocation) THEN 1 ELSE 0)

SignalSupplied == args.deviceInfo.k = "object"

\* C6 as stated: passed = (riskScore <= 0.5), and one heuristic may fire and
\* still pass: exactly one flag set gives passed = true, only both flags set
\* give passed = false.
C6_OneFlagPasses ==
  pc = "done" /\ SignalSupplied =>
    /\ result.passed = (result.riskScore <= 5)
    /\ (FlagsSet = 1 => result.passed)
    /\ (~result.passed <=> FlagsSet = 2)

\* C6, amended: passed = (riskScore <= 0.5), and no heuristic may fire and
\* still pass: one flag set gives a risk score of 0.6 and passed = false, as
\* both flags do; only a signal with neither flag set gives passed = true.
C6_NoFlagPasses ==
  pc = "done" /\ SignalSupplied =>
    /\ result.passed = (result.riskScore <= 5)
    /\ (FlagsSet = 1 => ~result.passed /\ result.riskScore = 6)
    /\ (result.passed <=> FlagsSet = 0)

\* The mock-location flag alone fails the assessment.
C6_Witness ==
  /\ pc = "done"
  /\ args.deviceInfo = DeviceInfoObj(Bool(FALSE), Bool(TRUE))
  /\ result.riskScore = 6
  /\ ~result.passed

\* C7: riskScore = min(1, 0.6 x the number of flags set), so it is within
\* [0, 1], and it is 1 with passed = false when both flags are set; without a
\* signal the result is {passed: true, checks: [], riskScore: 0}; with one,
\* checks holds two entries, isEmulator then mockLocation, each with a name
\* and a detail string, and an entry has passed = false exactly when its
\* flag is set.
C7_RiskScoreAndChecks ==
  pc = "done" =>
    /\ result.riskScore = (IF 6 * FlagsSet < 10 THEN 6 * FlagsSet ELSE 10)
    /\ result.riskScore \in 0..10
    /\ (FlagsSet = 2 => result.riskScore = 10 /\ ~result.passed)
    /\ (~SignalSupplied =>
          result = [passed |-> TRUE, checks |-> <<>>, riskScore |-> 0])
    /\ (SignalSupplied =>
          /\ Len(result.checks) = 2
          /\ result.checks[1].check = "isEmulator"
          /\ result.checks[2].check = "mockLocation"
          /\ \A i \in 1..2 : result.checks[i].details # ""
          /\ result.checks[1].passed = ~Truthy(args.deviceInfo.isEmulator)
          /\ result.checks[2].passed = ~Truthy(args.deviceInfo.isMockLocation))

\* Both flags set: the sum 1.2 is capped at 1.
C7_Witness ==
  /\ pc = "done"
  /\ args.deviceInfo = DeviceInfoObj(Bool(TRUE), Bool(TRUE))
  /\ result.riskScore = 10
  /\ ~result.passed
  /\ result.checks[1].passed = FALSE /\ result.checks[2].passed = FALSE

----------------------------------------------------------------------------
(* findNearby                                                              *)

MaxLocations == 3

\* A candidate: a document whose toObject() gives its data (here its id) and
\* whose coordinates.coordinates is [lon, lat].
Location(id, lon, lat) == [id |-> id, lon |-> lon, lat |-> lat]

\* Line 121: distance <= maxDistanceMeters, distance in centimetres; the
\* comparison converts maxDistanceMeters to a number.
WithinMaxStrict(distance, maxDistanceMeters) ==
  LET m == ToNumber(maxDistanceMeters) IN
  CASE m.k = "nan" -> FALSE
    [] m.k = "inf" -> m.n > 0
    [] OTHER -> distance < m.n * 100

WithinMax(distance, maxDistanceMeters) ==
  LET m == ToNumber(maxDistanceMeters) IN
  CASE m.k = "nan" -> FALSE
    [] m.k = "inf" -> m.n > 0
    [] OTHER -> distance <= m.n * 100

\* Lines 116-120: the candidates with their distances attached.
MapDistances(userLat, userLon, locations) ==
  [i \in 1..Len(locations) |->
     [id |-> locations[i].id,
      distance |-> CalculateDistance(userLat, userLon,
                                     locations[i].lat, locations[i].lon)]]

\* Line 121: filter
RECURSIVE Filter(_, _)
Filter(items, maxDistanceMeters) ==
  IF items = <<>> THEN <<>>
  ELSE IF WithinMax(Head(items).distance, maxDistanceMeters)
       THEN <<Head(items)>> \o Filter(Tail(items), maxDistanceMeters)
       ELSE Filter(Tail(items), maxDistanceMeters)

\* The place of item among the sorted items: after every item the comparator
\* a.distance - b.distance does not put behind it.
RECURSIVE InsertBeforeEqual(_, _)
InsertBeforeEqual(sorted, item) ==
  IF sorted = <<>> THEN <<item>>
  ELSE IF Head(sorted).distance - item.distance < 0
       THEN <<Head(sorted)>> \o InsertBeforeEqual(Tail(sorted), item)
       ELSE <<item>> \o sorted

RECURSIVE Insert(_, _)
Insert(sorted, item) ==
  IF sorted = <<>> THEN <<item>>
  ELSE IF Head(sorted).distance - item.distance <= 0
       THEN <<Head(sorted)>> \o Insert(Tail(sorted), item)
       ELSE <<item>> \o sorted

\* Line 122: Array.prototype.sort with the comparator a.distance - b.distance,
\* a stable sort.
RECURSIVE Sort(_)
Sort(items) ==
  IF items = <<>> THEN <<>>
  ELSE Insert(Sort(SubSeq(items, 1, Len(items) - 1)), items[Len(items)])

\* findNearby(userLat, userLon, locations, maxDistanceMeters)
FindNearby(userLat, userLon, locations, maxDistanceMeters) ==
  Sort(Filter(MapDistances(userLat, userLon, locations), maxDistanceMeters))

GridDegrees == {0, 1}

\* Sequences of up to MaxLocations candidates, the i-th with id i.
CandidateSequences ==
  UNION { { [i \in 1..n |-> Location(i, p[i][1], p[i][2])] :
              p \in [1..n -> GridDegrees \X GridDegrees] } : n \in 0..MaxLocations }

MaxDistanceValues ==
  { Undefined, NaN, PosInfinity, Num(-1), Num(0), Num(111178), Num(111195), Num(157249) }

\* A caller is about to call findNearby.
InitNearby ==
  /\ pc = "call"
  /\ args \in [userLat : GridDegrees, userLon : GridDegrees,
               locations : CandidateSequences,
               maxDistanceMeters : MaxDistanceValues]
  /\ result = <<>>
  /\ IdleService
  /\ IdleVault

\* The call of findNearby, from entry to return.
FindNearbyCall ==
  /\ pc = "call"
  /\ result' = FindNearby(args.userLat, args.userLon, args.locations,
                          args.maxDistanceMeters)
  /\ pc' = "done"
  /\ UNCHANGED <<args, serviceVars, vaultVars>>

NextNearby == FindNearbyCall

SpecNearby == InitNearby /\ [][NextNearby]_vars

\* The distance of candidate i from the user point, in centimetres.
DistanceOf(i) ==
  CalculateDistance(args.userLat, args.userLon,
                    args.locations[i].lat, args.locations[i].lon)

\* Candidate i lies within maxDistanceMeters of the user point.
Nearby(i) ==
  LET m == args.maxDistanceMeters IN
    \/ m = PosInfinity
    \/ m.k = "number" /\ DistanceOf(i) <= m.n * 100

\* C8: findNearby returns exactly the candidates whose distance from the
\* user point is <= maxDistanceMeters, each once and with its distance
\* attached, in ascending order of distance, candidates at equal distances
\* in their input order.
C8_FindNearby ==
  pc = "done" =>
    /\ { result[j].id : j \in 1..Len(result) }
         = { i \in 1..Len(args.locations) : Nearby(i) }
    /\ \A j \in 1..Len(result) : result[j].distance = DistanceOf(result[j].id)
    /\ \A j, l \in 1..Len(result) :
         j < l =>
           /\ result[j].distance <= result[l].distance
           /\ result[j].id # result[l].id
           /\ (result[j].distance = result[l].distance
                 => result[j].id < result[l].id)

\* Three candidates, the farthest first, the other two at equal distances:
\* one is dropped, or the result is reordered with the tie in input order.
C8_Witness ==
  /\ pc = "done"
  /\ Len(args.locations) = 3
  /\ DistanceOf(1) > DistanceOf(2)
  /\ DistanceOf(2) = DistanceOf(3)
  /\ DistanceOf(2) > 0
  /\ Len(result) = 2
  /\ result[1].id = 2 /\ result[2].id = 3

----------------------------------------------------------------------------
(* The service singleton: calls on one instance                            *)

MaxCalls == 3

\* isWithinRadius(userLat, userLon, targetLat, targetLon, radiusMeters):
\* the distance is compared before it is rounded.
IsWithinRadius(userLat, userLon, targetLat, targetLon, radiusMeters) ==
  LET distance == CalculateDistance(userLat, userLon, targetLat, targetLon) IN
  [isWithin |-> distance <= radiusMeters * 100,
   distance |-> MathRound(distance),
   radiusMeters |-> radiusMeters]

\* verifyLocation on heap h: the result is a new object.
VerifyLocationOn(h, a) ==
  Alloc(h, ObjectCell(VerifyLocation(a.submitted, a.target), 0))

\* isWithinRadius on heap h: the result is a new object.
IsWithinRadiusOn(h, a) ==
  Alloc(h, ObjectCell(IsWithinRadius(a.userLat, a.userLon, a.targetLat,
                                     a.targetLon, a.radiusMeters), 0))

\* findNearby on heap h: map and filter each create an array, sort orders
\* the array filter created and returns it.
FindNearbyOn(h, a) ==
  LET mapped == Alloc(h, ArrayCell("map", MapDistances(a.userLat, a.userLon, a.locations)))
      filtered == Alloc(mapped.heap,
                        ArrayCell("filter", Filter(mapped.heap[mapped.ref].elems,
                                                   a.maxDistanceMeters)))
  IN [heap |-> [filtered.heap EXCEPT ![filtered.ref].elems = Sort(@)],
      ref |-> filtered.ref]

\* A call of method op with arguments a on heap h.
CallOn(h, op, a) ==
  CASE op = "verifyLocation" -> VerifyLocationOn(h, a)
    [] op = "detectSpoofing" -> DetectSpoofingOn(h, a.deviceInfo)
    [] op = "isWithinRadius" -> IsWithinRadiusOn(h, a)
    [] op = "findNearby" -> FindNearbyOn(h, a)

Callers == {"quests", "stories"}

ServiceVerifyArgs ==
  { [submitted |-> SubmittedObj(Num(0), Num(1)),
     target |-> TargetObj(CoordsArray(<<Num(0), Num(0)>>), Num(5))],
    [submitted |-> SubmittedNone("undefined"), target |-> TargetNone("null")] }

ServiceSpoofArgs ==
  { [deviceInfo |-> d] :
      d \in { DeviceInfoNone("undefined"),
              DeviceInfoObj(Bool(FALSE), Bool(FALSE)),
              DeviceInfoObj(Bool(TRUE), Bool(FALSE)),
              DeviceInfoObj(Bool(TRUE), Bool(TRUE)) } }

ServiceRadiusArgs ==
  { [userLat |-> 0, userLon |-> 0, targetLat |-> 0, targetLon |-> 1,
     radiusMeters |-> r] : r \in {111194, 111195} }

ServiceNearbyArgs ==
  { [userLat |-> 0, userLon |-> 0,
     locations |-> <<Location(1, 1, 1), Location(2, 0, 0)>>,
     maxDistanceMeters |-> m] : m \in {Num(0), PosInfinity} }

\* The module has just been loaded: export default new GeolocationService().
\* The instance has no property of its own; no call has been made.
InitService ==
  /\ pc = "service"
  /\ args = <<>>
  /\ result = <<>>
  /\ heap = <<>>
  /\ callLog = <<>>
  /\ IdleVault

\* A caller calls method op with arguments a; the call runs to its return
\* (the methods are synchronous) and the caller keeps the reference.
Call(caller, op, a) ==
  /\ Len(callLog) < MaxCalls
  /\ LET call == CallOn(heap, op, a) IN
       /\ heap' = call.heap
       /\ callLog' = Append(callLog, [caller |-> caller, op |-> op, args |-> a,
                                      ref |-> call.ref])
  /\ UNCHANGED <<callVars, vaultVars>>

CallVerifyLocation ==
  \E c \in Callers, a \in ServiceVerifyArgs : Call(c, "verifyLocation", a)

CallDetectSpoofing ==
  \E c \in Callers, a \in ServiceSpoofArgs : Call(c, "detectSpoofing", a)

CallIsWithinRadius ==
  \E c \in Callers, a \in ServiceRadiusArgs : Call(c, "isWithinRadius", a)

CallFindNearby ==
  \E c \in Callers, a \in ServiceNearbyArgs : Call(c, "findNearby", a)

NextService ==
  \/ CallVerifyLocation
  \/ CallDetectSpoofing
  \/ CallIsWithinRadius
  \/ CallFindNearby

SpecService == InitService /\ [][NextService]_vars

\* What the same call returns when it is the first call on a new instance.
FirstCallResult(op, a) ==
  LET call == CallOn(<<>>, op, a) IN Observe(call.heap, call.ref)

\* The references a call's result holds: the result and its checks array.
Held(i) ==
  {callLog[i].ref} \cup ({heap[callLog[i].ref].checks} \ {0})

\* C9: the singleton holds no state between calls: whatever calls were made
\* before and after it, by whichever callers, the result a call returned is
\* what the same call returns as the first call on a new instance, and the
\* result object and checks array of one call are shared with no other call.
C9_Stateless ==
  /\ \A i \in 1..Len(callLog) :
       Observe(heap, callLog[i].ref)
         = FirstCallResult(callLog[i].op, callLog[i].args)
  /\ \A i, j \in 1..Len(callLog) : i # j => Held(i) \cap Held(j) = {}

\* The same signal assessed twice, by two callers, another assessment in
\* between: two results, two checks arrays, two entries in each.
C9_Witness ==
  /\ Len(callLog) = 3
  /\ \A i \in 1..3 : callLog[i].op = "detectSpoofing"
  /\ callLog[1].args = callLog[3].args
  /\ callLog[1].args # callLog[2].args
  /\ callLog[1].caller # callLog[3].caller
  /\ callLog[1].args.deviceInfo.k = "object"
  /\ callLog[2].args.deviceInfo.k = "object"
  /\ heap[callLog[1].ref].checks # heap[callLog[3].ref].checks
  /\ Len(Observe(heap, callLog[1].ref).checks) = 2

----------------------------------------------------------------------------
(* memory_vault::memory_vault                                              *)

MaxMemories == 3

\* @memory_vault, the publisher's address, and two user accounts.
ModuleAddress == "memory_vault"
Addresses == {ModuleAddress, "alice", "bob"}
IpfsHashes == {"QmA", "QmB"}

\* struct Memory (the timestamp, which no operation reads, is left out)
Memory(id, ipfs_hash, owner) == [id |-> id, ipfs_hash |-> ipfs_hash, owner |-> owner]

\* exists<UserMemories>(user)
ExistsUserMemories(user) == user_memories[user].exists

\* No account holds a resource.
InitVault ==
  /\ pc = "vault"
  /\ args = <<>>
  /\ result = <<>>
  /\ IdleService
  /\ store_exists = {}
  /\ memories = <<>>
  /\ total_count = 0
  /\ user_memories = [a \in Addresses |-> [exists |-> FALSE, memory_ids |-> <<>>]]

\* initialize(account): aborts with E_ALREADY_INITIALIZED when the account
\* holds a MemoryStore; an aborted transaction changes nothing.
Initialize(account) ==
  /\ account \notin store_exists
  /\ store_exists' = store_exists \cup {account}
  /\ IF account = ModuleAddress
     THEN memories' = <<>> /\ total_count' = 0
     ELSE UNCHANGED <<memories, total_count>>
  /\ UNCHANGED <<callVars, serviceVars, user_memories>>

\* store_memory(account, ipfs_hash): borrow_global_mut aborts when
\* @memory_vault holds no MemoryStore.
StoreMemory(account, ipfs_hash) ==
  /\ ModuleAddress \in store_exists
  /\ total_count < MaxMemories
  /\ LET memory_id == total_count + 1 IN
       /\ memories' = Append(memories, Memory(memory_id, ipfs_hash, account))
       /\ total_count' = memory_id
       /\ user_memories' =
            [user_memories EXCEPT ![account] =
               [exists |-> TRUE, memory_ids |-> Append(@.memory_ids, memory_id)]]
  /\ UNCHANGED <<callVars, serviceVars, store_exists>>

\* transfer_memory(account, memory_id, new_owner): aborts with
\* E_MEMORY_NOT_FOUND when no memory has the id, with E_NOT_OWNER when the
\* first memory with the id is not the sender's; else sets its owner.
TransferMemory(account, memory_id, new_owner) ==
  /\ ModuleAddress \in store_exists
  /\ \E i \in 1..Len(memories) :
       /\ memories[i].id = memory_id
       /\ \A j \in 1..(i - 1) : memories[j].id # memory_id
       /\ memories[i].owner = account
       /\ memories' = [memories EXCEPT ![i].owner = new_owner]
  /\ UNCHANGED <<callVars, serviceVars, store_exists, total_count, user_memories>>

\* verify_ownership(memory_id, owner)
VerifyOwnership(memory_id, owner) ==
  /\ \E i \in 1..Len(memories) : memories[i].id = memory_id
  /\ LET i == CHOOSE i \in 1..Len(memories) :
                /\ memories[i].id = memory_id
                /\ \A j \in 1..(i - 1) : memories[j].id # memory_id
     IN memories[i].owner = owner

\* get_user_memory_count(user)
GetUserMemoryCount(user) ==
  IF ~ExistsUserMemories(user) THEN 0 ELSE Len(user_memories[user].memory_ids)

InitializeTx == \E account \in Addresses : Initialize(account)

StoreMemoryTx ==
  \E account \in Addresses, ipfs_hash \in IpfsHashes : StoreMemory(account, ipfs_hash)

TransferMemoryTx ==
  \E account \in Addresses, memory_id \in 1..MaxMemories, new_owner \in Addresses :
    TransferMemory(account, memory_id, new_owner)

NextVault ==
  \/ InitializeTx
  \/ StoreMemoryTx
  \/ TransferMemoryTx

SpecVault == InitVault /\ [][NextVault]_vars

\* C10: each user's memory-id list matches ownership: the count of the list
\* is the number of stored memories the user owns, and the ids in the list
\* are the ids the user is verified to own.
C10_ListsMatchOwnership ==
  pc = "vault" =>
    \A u \in Addresses :
      /\ GetUserMemoryCount(u)
           = Cardinality({ i \in 1..Len(memories) : memories[i].owner = u })
      /\ { user_memories[u].memory_ids[k] : k \in 1..Len(user_memories[u].memory_ids) }
           = { id \in 1..MaxMemories : VerifyOwnership(id, u) }

====
